---- MODULE Spec2Model ----
(***************************************************************************)
(* OrarioTreni: normalisation of the ViaggiaTreno responses and the        *)
(* presentation rules of the command line client (cli/main.py on top of    *)
(* api/wrapper.py).                                                        *)
(*                                                                         *)
(* Python values `x | None` are modelled as sequences of length at most    *)
(* one: None is << >> and a value v is << v >>.                            *)
(***************************************************************************)
EXTENDS Integers, Sequences, FiniteSets, TLC

VARIABLES
    \* ---- Station.show_timetable (cli/main.py) ----
    pc,            \* position of the main thread in show_timetable
    is_departure,  \* the is_departure argument of show_timetable
    trains,        \* the board entries returned by get_departures / get_arrivals
    upstream,      \* what the upstream service answered to each entry's andamentoTreno call
    fetching,      \* the andamentoTreno calls in flight: [entry, thread]
    futures,       \* the futures list, in submission order
    completed,     \* the indices of the futures, in the order the workers completed them
    table,         \* the rows added to the PrettyTable, in add_row order
    raised,        \* the exception that left show_timetable ("" for none)
    \* ---- presentation of one train (Train / Station objects of cli/main.py) ----
    train,         \* the Train object under presentation
    ref,           \* index in train.stops of the stop being presented
    shown,         \* what was computed for that stop (None before)
    \* ---- one call of a conversion or formatting function ----
    call,          \* the function called and its arguments (None before)
    returned,      \* what the call returned or raised (None before)
    \* ---- dump_stations of api/wrapper.py ----
    stations,      \* the list the results of the fetches are gathered in
    csv            \* the rows written to stations.csv (None: file not written)

vars == <<pc, is_departure, trains, upstream, fetching, futures, completed, table, raised,
         train, ref, shown, call, returned, stations, csv>>

boardVars == <<pc, is_departure, trains, upstream, fetching, futures, completed, table, raised>>
fmtVars == <<train, ref, shown>>
callVars == <<call, returned>>
dumpVars == <<stations, csv>>

-----------------------------------------------------------------------------
(* Bounds of the model *)

MaxBoard == 2
MaxStops == 3

-----------------------------------------------------------------------------
(* Python optional values and truthiness *)

None == << >>
Some(v) == << v >>

\* bool(x) of a `str | None`: None and "" are falsy
Truthy(o) == o # None /\ o[1] # ""

\* a or b
Or(a, b) == IF Truthy(a) THEN a ELSE b

-----------------------------------------------------------------------------
(* api/utils.py *)

\* to_datetime with `is not None` for the truth test: 0 becomes the epoch
to_datetime_zero_is_epoch(timestamp_ms) ==
    IF timestamp_ms # None THEN Some(timestamp_ms[1]) ELSE None

\* A datetime is represented by its distance from the epoch in milliseconds.
to_datetime(timestamp_ms) ==
    IF timestamp_ms # None /\ timestamp_ms[1] # 0 THEN Some(timestamp_ms[1]) ELSE None

\* A date is represented by its number of days from the epoch.
to_date(timestamp_ms) ==
    IF timestamp_ms # None /\ timestamp_ms[1] # 0 THEN Some(timestamp_ms[1] \div 86400000) ELSE None

\* The codes outside the table raise KeyError, modelled as the value "KeyError".
map_stop_type(stop_type) ==
    CASE stop_type = "P" -> "departure"
      [] stop_type = "F" -> "intermediate"
      [] stop_type = "A" -> "arrival"
      [] OTHER -> "KeyError"

\* map_stop_type of viaggiatreno.py: dict.get(stop_type, stop_type)
viaggiatreno_map_stop_type(stop_type) ==
    CASE stop_type = "P" -> "departure"
      [] stop_type = "F" -> "intermediate"
      [] stop_type = "A" -> "arrival"
      [] OTHER -> stop_type

\* map_stop_type of orariotreni/utils.py: dict.get(stop_type, stop_type)
orariotreni_map_stop_type(stop_type) ==
    CASE stop_type = "P" -> "departure"
      [] stop_type = "F" -> "intermediate"
      [] stop_type = "A" -> "arrival"
      [] OTHER -> stop_type

-----------------------------------------------------------------------------
(* api/wrapper.py: get_train_progress *)

\* One TrainStop of the TrainProgress, from one element s of r["fermate"].
TrainStop(s) ==
    [ station_id                |-> s.id,
      name                      |-> s.stazione,
      type                      |-> map_stop_type(s.tipoFermata),
      scheduled_departure_time  |-> to_datetime(s.partenza_teorica),
      actual_departure_time     |-> to_datetime(s.partenzaReale),
      departed                  |-> to_datetime(s.partenzaReale) # None,
      scheduled_arrival_time    |-> to_datetime(s.arrivo_teorico),
      actual_arrival_time       |-> to_datetime(s.arrivoReale),
      arrived                   |-> to_datetime(s.arrivoReale) # None,
      scheduled_departure_track |-> s.binarioProgrammatoPartenzaDescrizione,
      actual_departure_track    |-> s.binarioEffettivoPartenzaDescrizione,
      scheduled_arrival_track   |-> s.binarioProgrammatoArrivoDescrizione,
      actual_arrival_track      |-> s.binarioEffettivoArrivoDescrizione ]

\* The TrainProgress built from a non-empty response body r.
TrainProgress(r) ==
    [ number |-> r.numeroTreno,
      delay  |-> IF r.ritardo # None /\ r.ritardo[1] # 0 THEN r.ritardo[1] ELSE 0,
      stops  |-> [i \in 1..Len(r.fermate) |-> TrainStop(r.fermate[i])] ]

-----------------------------------------------------------------------------
(* cli/main.py: Station.__init__ and Train.__init__ *)

\* next((s for s in stops if s.station_id == station_id), None), as an index (0: None)
FirstStop(stops, station_id) ==
    IF \E i \in 1..Len(stops) : stops[i].station_id = station_id
    THEN CHOOSE i \in 1..Len(stops) :
            /\ stops[i].station_id = station_id
            /\ \A j \in 1..(i - 1) : stops[j].station_id # station_id
    ELSE 0

\* Station(station_id, name, stops, train) for a station_id that is in stops
Station(station_id, name, stops) ==
    LET stop == stops[FirstStop(stops, station_id)] IN
    [ station_id                |-> station_id,
      name                      |-> name,
      actual_departure_track    |-> stop.actual_departure_track,
      scheduled_departure_track |-> stop.scheduled_departure_track,
      actual_arrival_track      |-> stop.actual_arrival_track,
      scheduled_arrival_track   |-> stop.scheduled_arrival_track,
      arrived                   |-> stop.arrived,
      departed                  |-> stop.departed,
      type                      |-> stop.type,
      actual_departure_time     |-> stop.actual_departure_time,
      scheduled_departure_time  |-> stop.scheduled_departure_time,
      actual_arrival_time       |-> stop.actual_arrival_time,
      scheduled_arrival_time    |-> stop.scheduled_arrival_time ]

\* Train(number, origin_station_id, departure_date, detailed_info)
Train(number, detailed_info) ==
    [ number |-> number,
      stops  |-> [i \in 1..Len(detailed_info.stops) |->
                     Station(detailed_info.stops[i].station_id,
                             detailed_info.stops[i].name,
                             detailed_info.stops)],
      delay  |-> detailed_info.delay ]

\* self.origin = self.stops[0]; self.destination = self.stops[-1]
origin(t) == t.stops[1]
destination(t) == t.stops[Len(t.stops)]

-----------------------------------------------------------------------------
(* Text as the terminal shows it.  A Python str that may carry ANSI styling  *)
(* is the record [text, fg, bold, dim]: text is the payload (None only for *)
(* the Python value None), fg the colour code around it ("" for none).     *)

Str(o) == [text |-> o, fg |-> "", bold |-> FALSE, dim |-> FALSE]

\* click.style(text, fg=fg, bold=bold, dim=dim): a non-str text goes through
\* str(), so None becomes the four letters "None"
click_style(v, fg, bold, dim) ==
    [ text |-> IF v.text = None THEN Some("None") ELSE v.text,
      fg   |-> IF fg # "" THEN fg ELSE v.fg,
      bold |-> v.bold \/ bold,
      dim  |-> v.dim \/ dim ]

\* bool(v): a styled string is never empty, it holds at least the escape codes
TruthyStr(v) == IF v.fg # "" \/ v.bold \/ v.dim THEN TRUE ELSE Truthy(v.text)

\* dt.strftime("%H:%M") of a datetime (the local time zone is taken as UTC)
strftime(ms) == [hour |-> (ms \div 3600000) % 24, minute |-> (ms \div 60000) % 60]

-----------------------------------------------------------------------------
(* cli/main.py: the presentation rules *)

\* get_formatted_delay with ">= 0" for "> 0": a punctual train shown as "+0"
get_formatted_delay_zero_late(t) ==
    IF origin(t).departed
    THEN IF t.delay >= 0 THEN click_style(Str(Some("+" \o ToString(t.delay))), "red", FALSE, FALSE)
         ELSE click_style(Str(Some(ToString(t.delay))), "green", FALSE, FALSE)
    ELSE IF origin(t).actual_departure_track # None THEN Str(Some("Pronto"))
    ELSE Str(Some("Non partito"))

\* Train.get_formatted_delay
get_formatted_delay(t) ==
    IF origin(t).departed
    THEN IF t.delay > 0 THEN click_style(Str(Some("+" \o ToString(t.delay))), "red", FALSE, FALSE)
         ELSE IF t.delay < 0 THEN click_style(Str(Some(ToString(t.delay))), "green", FALSE, FALSE)
         ELSE Str(Some("In orario"))
    ELSE IF origin(t).actual_departure_track # None THEN Str(Some("Pronto"))
    ELSE Str(Some("Non partito"))

\* coloured_track with one colour for every actual track that differs from
\* the scheduled one, a missing scheduled track included
coloured_track_two_colours(self) ==
    LET track == Or(self.actual_departure_track, self.actual_arrival_track)
        scheduled_track == Or(self.scheduled_departure_track, self.scheduled_arrival_track)
    IN  IF Truthy(track)
        THEN IF track = scheduled_track THEN click_style(Str(track), "blue", FALSE, FALSE)
             ELSE click_style(Str(track), "magenta", FALSE, FALSE)
        ELSE Str(scheduled_track)

\* Station.get_formatted_track, lines 288-299: the track and its colour
coloured_track(self) ==
    LET track == Or(self.actual_departure_track, self.actual_arrival_track)
        scheduled_track == Or(self.scheduled_departure_track, self.scheduled_arrival_track)
    IN  IF Truthy(track)
        THEN IF track = scheduled_track THEN click_style(Str(track), "blue", FALSE, FALSE)
             ELSE IF Truthy(scheduled_track) THEN click_style(Str(track), "magenta", FALSE, FALSE)
             ELSE click_style(Str(track), "cyan", FALSE, FALSE)
        ELSE Str(scheduled_track)

\* row_style with the two tests in the other order: a train standing at a
\* stop is bold even when the journey is over
row_style_bold_first(self, t) ==
    IF self.arrived /\ ~self.departed THEN "bold"
    ELSE IF (self.arrived \/ origin(t).actual_departure_time # None)
            /\ (self.departed \/ destination(t).actual_arrival_time # None)
    THEN "dim"
    ELSE "plain"

\* row_style without its second test: a train standing at a stop is plain
row_style_never_bold(self, t) ==
    IF (self.arrived \/ origin(t).actual_departure_time # None)
       /\ (self.departed \/ destination(t).actual_arrival_time # None)
    THEN "dim"
    ELSE "plain"

\* Station.get_formatted_track, lines 301-306: the weight of the row
row_style(self, t) ==
    IF (self.arrived \/ origin(t).actual_departure_time # None)
       /\ (self.departed \/ destination(t).actual_arrival_time # None)
    THEN "dim"
    ELSE IF self.arrived /\ ~self.departed THEN "bold"
    ELSE "plain"

\* Station.get_formatted_track
get_formatted_track(self, t) ==
    LET track == coloured_track(self)
        style == row_style(self, t)
    IN  IF style = "dim" THEN click_style(track, "", FALSE, TRUE)
        ELSE IF style = "bold" THEN click_style(track, "", TRUE, FALSE)
        ELSE track

\* get_formatted_time with ">=" for ">": thirty seconds late shown as late
get_formatted_time_from_30s(self, delay, check_departures) ==
    LET actual_time == IF check_departures THEN self.actual_departure_time
                       ELSE self.actual_arrival_time
        scheduled_time == IF check_departures THEN self.scheduled_departure_time
                          ELSE self.scheduled_arrival_time
    IN  IF actual_time # None
        THEN IF scheduled_time = None THEN [raised |-> "TypeError", value |-> None]
             ELSE IF actual_time[1] >= scheduled_time[1] + 30000
             THEN [raised |-> "", value |-> Some(click_style(Str(Some(strftime(actual_time[1]))), "red", FALSE, FALSE))]
             ELSE [raised |-> "", value |-> Some(click_style(Str(Some(strftime(actual_time[1]))), "green", FALSE, FALSE))]
        ELSE IF delay > 0
        THEN IF scheduled_time = None THEN [raised |-> "TypeError", value |-> None]
             ELSE [raised |-> "", value |-> Some(click_style(Str(Some(strftime(scheduled_time[1] + delay * 60000))), "yellow", FALSE, FALSE))]
        ELSE IF scheduled_time = None THEN [raised |-> "AttributeError", value |-> None]
             ELSE [raised |-> "", value |-> Some(Str(Some(strftime(scheduled_time[1]))))]

\* Station.get_formatted_time(delay, check_departures=...): what it returns,
\* or the exception of the arithmetic on a missing scheduled time
get_formatted_time(self, delay, check_departures) ==
    LET actual_time == IF check_departures THEN self.actual_departure_time
                       ELSE self.actual_arrival_time
        scheduled_time == IF check_departures THEN self.scheduled_departure_time
                          ELSE self.scheduled_arrival_time
    IN  IF actual_time # None
        THEN IF scheduled_time = None THEN [raised |-> "TypeError", value |-> None]
             ELSE IF actual_time[1] > scheduled_time[1] + 30000
             THEN [raised |-> "", value |-> Some(click_style(Str(Some(strftime(actual_time[1]))), "red", FALSE, FALSE))]
             ELSE [raised |-> "", value |-> Some(click_style(Str(Some(strftime(actual_time[1]))), "green", FALSE, FALSE))]
        ELSE IF delay > 0
        THEN IF scheduled_time = None THEN [raised |-> "TypeError", value |-> None]
             ELSE [raised |-> "", value |-> Some(click_style(Str(Some(strftime(scheduled_time[1] + delay * 60000))), "yellow", FALSE, FALSE))]
        ELSE IF scheduled_time = None THEN [raised |-> "AttributeError", value |-> None]
             ELSE [raised |-> "", value |-> Some(Str(Some(strftime(scheduled_time[1]))))]

\* What a call raises or returns: raised is "" when the call returns.
Raise(e) == [raised |-> e, value |-> None]
Return(v) == [raised |-> "", value |-> Some(v)]

\* process_train without the `or "N/A"` of its last cell
process_train_no_placeholder(self_id, t, check_departures) ==
    IF t = None THEN Raise("AttributeError")
    ELSE LET tr == t[1]
             k == FirstStop(tr.stops, self_id)
         IN  IF k = 0 THEN Raise("NotImplementedError")
             ELSE LET station == tr.stops[k]
                      time == IF check_departures THEN station.scheduled_departure_time
                              ELSE station.scheduled_arrival_time
                  IN  IF time = None THEN Raise("AttributeError")
                      ELSE Return([ train          |-> Some(tr.number),
                                    station_name   |-> IF check_departures
                                                       THEN destination(tr).name
                                                       ELSE origin(tr).name,
                                    scheduled_time |-> strftime(time[1]),
                                    delay          |-> get_formatted_delay(tr),
                                    track          |-> get_formatted_track(station, tr) ])

\* Station.process_train(train, check_departures=...) of the station self_id;
\* t is None when Train.create returned None
process_train(self_id, t, check_departures) ==
    IF t = None THEN Raise("AttributeError")
    ELSE LET tr == t[1]
             k == FirstStop(tr.stops, self_id)
         IN  IF k = 0 THEN Raise("NotImplementedError")
             ELSE LET station == tr.stops[k]
                      time == IF check_departures THEN station.scheduled_departure_time
                              ELSE station.scheduled_arrival_time
                      track == get_formatted_track(station, tr)
                  IN  IF time = None THEN Raise("AttributeError")
                      ELSE Return([ train          |-> Some(tr.number),
                                    station_name   |-> IF check_departures
                                                       THEN destination(tr).name
                                                       ELSE origin(tr).name,
                                    scheduled_time |-> strftime(time[1]),
                                    delay          |-> get_formatted_delay(tr),
                                    track          |-> IF TruthyStr(track) THEN track
                                                       ELSE Str(Some("N/A")) ])

-----------------------------------------------------------------------------
(* The andamentoTreno responses the presentation rules are exercised on:   *)
(* journeys of 2..MaxStops stops in which one stop, the one at index p,    *)
(* takes every combination of tracks and actual times, and the journey's   *)
(* first and last stop every value the rules read from them.               *)

Tracks == {None, Some(""), Some("1"), Some("2")}
Delays == {None, Some(-3), Some(0), Some(5)}

\* scheduled departure from the i-th stop: 08:00 plus ten minutes per stop
Sched(i) == 28800000 + (i - 1) * 600000
ActualTimes(i) == {None, Some(Sched(i) + 60000)}

RawStop(i, n, pr, ar, bpp, bep, bpa, bea) ==
    [ id                                     |-> "S0170" \o ToString(i),
      stazione                               |-> "STAZIONE " \o ToString(i),
      tipoFermata                            |-> IF i = 1 THEN "P" ELSE IF i = n THEN "A" ELSE "F",
      partenza_teorica                       |-> IF i < n THEN Some(Sched(i)) ELSE None,
      partenzaReale                          |-> pr,
      arrivo_teorico                         |-> IF i > 1 THEN Some(Sched(i) - 120000) ELSE None,
      arrivoReale                            |-> ar,
      binarioProgrammatoPartenzaDescrizione  |-> bpp,
      binarioEffettivoPartenzaDescrizione    |-> bep,
      binarioProgrammatoArrivoDescrizione    |-> bpa,
      binarioEffettivoArrivoDescrizione      |-> bea ]

FullStops(i, n) ==
    { RawStop(i, n, pr, ar, bpp, bep, bpa, bea) :
        pr \in ActualTimes(i), ar \in ActualTimes(i),
        bpp \in Tracks, bep \in Tracks, bpa \in Tracks, bea \in Tracks }

OtherStops(i, n) ==
    IF i = 1 THEN { RawStop(i, n, pr, None, None, bep, None, None) :
                      pr \in ActualTimes(i), bep \in {None, Some("1")} }
    ELSE IF i = n THEN { RawStop(i, n, None, ar, None, None, None, None) : ar \in ActualTimes(i) }
    ELSE { RawStop(i, n, None, None, None, None, None, None) }

\* the stops i..n of the journeys of n stops whose p-th stop is the varied one
RECURSIVE StopsFrom(_, _, _)
StopsFrom(i, n, p) ==
    IF i > n THEN { << >> }
    ELSE { << s >> \o rest :
             s \in (IF i = p THEN FullStops(i, n) ELSE OtherStops(i, n)),
             rest \in StopsFrom(i + 1, n, p) }

Journeys(n, p) == StopsFrom(1, n, p)

Response(number, ritardo, fermate) ==
    [numeroTreno |-> number, ritardo |-> ritardo, fermate |-> fermate]

-----------------------------------------------------------------------------
(* Presentation of one train: Train.show_progress and Station.process_train *)

\* Train.show_progress: the status of the header line and the track printed
\* beside each stop
show_progress(t) ==
    [ view   |-> "progress",
      delay  |-> get_formatted_delay(t),
      tracks |-> [i \in 1..Len(t.stops) |-> get_formatted_track(t.stops[i], t)] ]

\* the call of process_train that builds the row of t on the board of the
\* station of its stop k
board_row(t, k, check_departures) ==
    [ view   |-> IF check_departures THEN "departures" ELSE "arrivals",
      result |-> process_train(t.stops[k].station_id, Some(t), check_departures) ]

idle ==
    /\ pc = "idle"
    /\ is_departure = TRUE
    /\ trains = << >>
    /\ upstream = << >>
    /\ fetching = {}
    /\ futures = << >>
    /\ completed = << >>
    /\ table = << >>
    /\ raised = ""
    /\ stations = << >>
    /\ csv = None

InitFormat ==
    /\ idle
    /\ \E n \in 2..MaxStops : \E p \in 1..n : \E fermate \in Journeys(n, p) : \E ritardo \in Delays :
          /\ train = Some(Train(9999, TrainProgress(Response(9999, ritardo, fermate))))
          /\ ref = p
    /\ shown = None
    /\ call = None
    /\ returned = None

ShowProgress ==
    /\ train # None /\ shown = None
    /\ shown' = Some(show_progress(train[1]))
    /\ UNCHANGED <<boardVars, train, ref, callVars, dumpVars>>

\* A board lists a train at a station only if the train is scheduled to
\* leave it (departures) or to reach it (arrivals).
ProcessTrain(check_departures) ==
    /\ train # None /\ shown = None
    /\ IF check_departures
       THEN train[1].stops[ref].scheduled_departure_time # None
       ELSE train[1].stops[ref].scheduled_arrival_time # None
    /\ shown' = Some(board_row(train[1], ref, check_departures))
    /\ UNCHANGED <<boardVars, train, ref, callVars, dumpVars>>

NextFormat ==
    \/ ShowProgress
    \/ \E check_departures \in BOOLEAN : ProcessTrain(check_departures)

SpecFormat == InitFormat /\ [][NextFormat]_vars

-----------------------------------------------------------------------------
(* Properties of the presentation rules, under SpecFormat *)

ProgressShown == shown # None /\ shown[1].view = "progress"
RowShown == shown # None /\ shown[1].view # "progress" /\ shown[1].result.raised = ""
RowCells == shown[1].result.value[1]

\* the tracks get_formatted_track works on: the departure side when it has
\* one, else the arrival side
ActualTrack(s) == Or(s.actual_departure_track, s.actual_arrival_track)
ScheduledTrack(s) == Or(s.scheduled_departure_track, s.scheduled_arrival_track)

\* the train has passed the stop s: (arrived or origin actually departed)
\* and (departed or destination actually arrived)
Passed(s, t) ==
    /\ s.arrived \/ origin(t).actual_departure_time # None
    /\ s.departed \/ destination(t).actual_arrival_time # None

RowStyleRule(s, t, v) ==
    /\ v.dim <=> Passed(s, t)
    /\ v.bold <=> (~Passed(s, t) /\ s.arrived /\ ~s.departed)
    /\ ~(v.dim /\ v.bold)

\* C1: Row Style Rule. The track of a stop is dimmed exactly when (arrived or
\* the origin has an actual departure time) and (departed or the destination
\* has an actual arrival time); otherwise it is bold exactly when arrived and
\* not departed; otherwise plain. Dimmed and bold are never applied together.
C1_RowStyleRule ==
    /\ ProgressShown =>
         \A i \in 1..Len(train[1].stops) :
            RowStyleRule(train[1].stops[i], train[1], shown[1].tracks[i])
    /\ RowShown => RowStyleRule(train[1].stops[ref], train[1], RowCells.track)

\* a train is standing at an intermediate stop (bold) while the stops behind
\* it are dimmed and the stops ahead are plain
C1_Witness ==
    /\ ProgressShown
    /\ \E i, j, k \in 1..Len(train[1].stops) :
          /\ shown[1].tracks[i].dim /\ ~shown[1].tracks[i].bold
          /\ shown[1].tracks[j].bold /\ ~shown[1].tracks[j].dim
          /\ ~shown[1].tracks[k].bold /\ ~shown[1].tracks[k].dim

DelayRule(t, d) ==
    IF origin(t).departed
    THEN /\ t.delay = 5 => d = [text |-> Some("+5"), fg |-> "red", bold |-> FALSE, dim |-> FALSE]
         /\ t.delay = -3 => d = [text |-> Some("-3"), fg |-> "green", bold |-> FALSE, dim |-> FALSE]
         /\ t.delay = 0 => d = Str(Some("In orario"))
         /\ t.delay \in {5, -3, 0}
    ELSE IF origin(t).actual_departure_track # None
         THEN d = Str(Some("Pronto"))
         ELSE d = Str(Some("Non partito"))

\* C2: Delay Rule. If the train has departed from its origin the status is
\* "+N" in red when delay > 0, the negative number in green when delay < 0 and
\* "In orario" when delay = 0; if it has not departed the status is "Pronto"
\* when the origin's actual departure track is known and "Non partito"
\* otherwise, whatever the delay.
C2_DelayRule ==
    /\ ProgressShown => DelayRule(train[1], shown[1].delay)
    /\ RowShown => DelayRule(train[1], RowCells.delay)

\* a late train still at its origin, with its track announced, is "Pronto"
C2_Witness ==
    /\ RowShown
    /\ ~origin(train[1]).departed
    /\ train[1].delay = 5
    /\ origin(train[1]).actual_departure_track = Some("1")
    /\ RowCells.delay.text = Some("Pronto")

\* C3 as claimed: an actual track is shown in the "unchanged" colour when it
\* equals the scheduled track and in one "changed" colour whenever it differs,
\* a missing scheduled track counting as a difference.
C3_SingleChangedStyle ==
    ProgressShown =>
        \A i \in 1..Len(train[1].stops) :
            LET s == train[1].stops[i]
                v == shown[1].tracks[i]
            IN  Truthy(ActualTrack(s)) =>
                    /\ v.text = ActualTrack(s)
                    /\ v.fg = IF ActualTrack(s) = ScheduledTrack(s) THEN "blue" ELSE "magenta"

\* C3: Track Rule, actual track present. The text is the actual track, in
\* the "unchanged" colour (blue) when it equals the scheduled track, in the
\* "changed" colour (magenta) when a scheduled track exists and differs, and
\* in a third colour (cyan) when there is no scheduled track.
C3_TrackRuleActualPresent ==
    ProgressShown =>
        \A i \in 1..Len(train[1].stops) :
            LET s == train[1].stops[i]
                v == shown[1].tracks[i]
            IN  Truthy(ActualTrack(s)) =>
                    /\ v.text = ActualTrack(s)
                    /\ v.fg = IF ActualTrack(s) = ScheduledTrack(s) THEN "blue"
                              ELSE IF Truthy(ScheduledTrack(s)) THEN "magenta"
                              ELSE "cyan"

\* an actual track with no scheduled track at all is shown in cyan
C3_Witness ==
    /\ ProgressShown
    /\ \E i \in 1..Len(train[1].stops) :
          /\ Truthy(ActualTrack(train[1].stops[i]))
          /\ ScheduledTrack(train[1].stops[i]) = None
          /\ shown[1].tracks[i].fg = "cyan"

\* the tracks of the side of the stop the board is about
SideActualTrack(s, view) ==
    IF view = "departures" THEN s.actual_departure_track ELSE s.actual_arrival_track
SideScheduledTrack(s, view) ==
    IF view = "departures" THEN s.scheduled_departure_track ELSE s.scheduled_arrival_track

\* C4: Track Rule, side selection. The track of a board row is taken from the
\* departure side of the stop on a departures board and from the arrival side
\* on an arrivals board: a known actual track of that side is the text shown,
\* coloured by comparison with the scheduled track of that side, whatever
\* the other side holds.
C4_SideSelection ==
    RowShown =>
        LET s == train[1].stops[ref]
            actual == SideActualTrack(s, shown[1].view)
        IN  Truthy(actual) =>
                /\ RowCells.track.text = actual
                /\ (RowCells.track.fg = "blue") <=> (actual = SideScheduledTrack(s, shown[1].view))

NoTrack(s, v) ==
    IF v.dim \/ v.bold
    THEN v.text = IF ScheduledTrack(s) = None THEN Some("None") ELSE Some("")
    ELSE v.text \in {None, Some("")}

C18_StandingIsBold ==
    /\ ProgressShown =>
         \A i \in 1..Len(train[1].stops) :
            (train[1].stops[i].arrived /\ ~train[1].stops[i].departed) => shown[1].tracks[i].bold
    /\ RowShown =>
         ((train[1].stops[ref].arrived /\ ~train[1].stops[ref].departed) => RowCells.track.bold)

\* the style a stop the train has reached and not left must have
StandingStyle(s, t, v) ==
    (s.arrived /\ ~s.departed) =>
        IF destination(t).actual_arrival_time # None
        THEN v.dim /\ ~v.bold
        ELSE v.bold /\ ~v.dim

\* C18, amended: a stop with arrived true and departed false is shown bold
\* unless the destination has an actual arrival time; then the Dimmed test,
\* which comes first, holds and the stop is shown dimmed.
C18_StandingIsBoldUntilJourneyEnd ==
    /\ ProgressShown =>
         \A i \in 1..Len(train[1].stops) :
            StandingStyle(train[1].stops[i], train[1], shown[1].tracks[i])
    /\ RowShown => StandingStyle(train[1].stops[ref], train[1], RowCells.track)

\* the row of a train standing at the board's station, on its way, is bold
C18_Witness ==
    /\ RowShown
    /\ train[1].stops[ref].arrived
    /\ ~train[1].stops[ref].departed
    /\ destination(train[1]).actual_arrival_time = None
    /\ RowCells.track.bold

\* C21: End-to-end board row. On the departures board of a train's origin
\* station, a train that has departed from its origin with delay 0 and whose
\* origin stop has an actual departure track equal to the scheduled one has
\* the status "In orario", the track in the unchanged colour, and no dim or
\* bold styling.
C21_EndToEndRow ==
    LET t == train[1]
        s == train[1].stops[ref]
    IN  ( /\ RowShown
          /\ shown[1].view = "departures"
          /\ ref = 1
          /\ origin(t).departed
          /\ t.delay = 0
          /\ Truthy(s.actual_departure_track)
          /\ s.actual_departure_track = s.scheduled_departure_track )
        => /\ RowCells.delay = Str(Some("In orario"))
           /\ RowCells.track.text = s.actual_departure_track
           /\ RowCells.track.fg = "blue"
           /\ ~RowCells.track.dim
           /\ ~RowCells.track.bold

\* C26: a stop with neither an actual nor a scheduled track gets the same
\* placeholder in its track cell whether the row is plain, bold or dimmed,
\* and the text "None" is never shown as a track.
C26_SamePlaceholder ==
    /\ RowShown =>
         ((~Truthy(ActualTrack(train[1].stops[ref])) /\ ~Truthy(ScheduledTrack(train[1].stops[ref])))
             => RowCells.track.text = Some("N/A"))
    /\ ProgressShown =>
         \A i \in 1..Len(train[1].stops) : shown[1].tracks[i].text # Some("None")

\* C27: an actual track is shown in the changed colour only if it differs
\* from the scheduled track of its own side; an actual arrival track equal to
\* the scheduled arrival track is never shown as changed, whatever the
\* departure-side tracks are.
C27_SameSideComparison ==
    ProgressShown =>
        \A i \in 1..Len(train[1].stops) :
            LET s == train[1].stops[i]
                v == shown[1].tracks[i]
            IN  /\ ( /\ ~Truthy(s.actual_departure_track)
                     /\ Truthy(s.actual_arrival_track)
                     /\ s.actual_arrival_track = s.scheduled_arrival_track )
                   => v.fg \notin {"magenta", "cyan"}
                /\ ( /\ Truthy(s.actual_departure_track)
                     /\ s.actual_departure_track = s.scheduled_departure_track )
                   => v.fg \notin {"magenta", "cyan"}

-----------------------------------------------------------------------------
(* Station.show_timetable: the board of one station.  The main thread      *)
(* builds the futures list, evaluating Train.create for each entry as an   *)
(* argument of executor.submit; the pool's workers run process_train; the  *)
(* main thread then takes the results in the order of the futures list.    *)

\* self.station_id of the station whose timetable is shown
BoardStation == "S01702"

\* the i-th Departure / Arrival of the board
Entry(i) == [number |-> 2000 + i, origin_station_id |-> "S01701"]

Boards == { [i \in 1..n |-> Entry(i)] : n \in 0..MaxBoard }

\* Journeys the upstream service reports for a train of the board: waiting at
\* its origin, standing at the board's station, and one whose stop list
\* leaves the board's station out.
BoardJourneys ==
    { << RawStop(1, 3, None, None, Some("1"), None, None, None),
         RawStop(2, 3, None, None, Some("4"), None, Some("4"), None),
         RawStop(3, 3, None, None, None, None, Some("2"), None) >>,
      << RawStop(1, 3, Some(Sched(1)), None, Some("1"), Some("1"), None, None),
         RawStop(2, 3, None, Some(Sched(2)), Some("4"), Some("5"), Some("4"), Some("5")),
         RawStop(3, 3, None, None, None, None, Some("2"), None) >>,
      << RawStop(1, 3, Some(Sched(1)), None, Some("1"), Some("1"), None, None),
         RawStop(3, 3, None, None, None, None, Some("2"), None) >> }

\* What the upstream service may answer to the andamentoTreno call of entry e:
\* an error status or a timeout, an empty body, or a journey.
Unasked == [status |-> "", body |-> None]
Answers(e) ==
    { [status |-> "error", body |-> None], [status |-> "ok", body |-> None] }
    \cup { [status |-> "ok", body |-> Some(Response(e.number, Some(0), j))] : j \in BoardJourneys }

\* get_train_progress with int(r["ritardo"]) for int(r["ritardo"] or 0)
get_train_progress_strict_delay(a) ==
    IF a.status = "error" THEN Raise("requests.HTTPError")
    ELSE IF a.body = None THEN Raise("fastapi.HTTPException")
    ELSE IF a.body[1].ritardo = None THEN Raise("TypeError")
    ELSE Return(TrainProgress(a.body[1]))

\* api.get_train_progress on the answer a: requests raises on an error status
\* or a timeout, and an empty body is turned into fastapi's HTTPException(204)
get_train_progress(a) ==
    IF a.status = "error" THEN Raise("requests.HTTPError")
    ELSE IF a.body = None THEN Raise("fastapi.HTTPException")
    ELSE Return(TrainProgress(a.body[1]))

\* Train.create without its except clause: every exception of the fetch leaves it
create_raising_on_empty(number, a) ==
    LET detailed_info == get_train_progress(a) IN
    IF detailed_info.raised # "" THEN detailed_info
    ELSE Return(Some(Train(number, detailed_info.value[1])))

\* Train.create: only api.HTTPException (fastapi's) is caught
create(number, a) ==
    LET detailed_info == get_train_progress(a) IN
    IF detailed_info.raised = "fastapi.HTTPException" THEN Return(None)
    ELSE IF detailed_info.raised # "" THEN detailed_info
    ELSE Return(Some(Train(number, detailed_info.value[1])))

\* the futures taken as they complete (as_completed) instead of in list order
next_future_as_completed ==
    IF Len(completed) > Len(table) THEN completed[Len(table) + 1] ELSE 0

\* for future in futures: the future the main thread waits for next
next_future == Len(table) + 1

Init ==
    /\ pc = "start"
    /\ is_departure \in BOOLEAN
    /\ trains = << >>
    /\ upstream = << >>
    /\ fetching = {}
    /\ futures = << >>
    /\ completed = << >>
    /\ table = << >>
    /\ raised = ""
    /\ stations = << >>
    /\ csv = None
    /\ train = None
    /\ ref = 0
    /\ shown = None
    /\ call = None
    /\ returned = None

\* api.get_departures / api.get_arrivals, and the return on an empty board
GetBoard ==
    /\ pc = "start"
    /\ \E b \in Boards :
          /\ trains' = b
          /\ upstream' = [i \in 1..Len(b) |-> Unasked]
          /\ pc' = IF b = << >> THEN "returned" ELSE "submit"
    /\ UNCHANGED <<is_departure, fetching, futures, completed, table, raised, fmtVars, callVars, dumpVars>>

\* the main thread evaluates Train.create(...) for the next entry: the request leaves
FetchStart ==
    /\ pc = "submit"
    /\ fetching' = fetching \cup {[entry |-> Len(futures) + 1, thread |-> "MainThread"]}
    /\ pc' = "fetch"
    /\ UNCHANGED <<is_departure, trains, upstream, futures, completed, table, raised, fmtVars, callVars, dumpVars>>

\* the answer arrives: Train.create returns or raises, and on a return the
\* call of process_train is submitted to the pool
FetchReturn ==
    /\ pc = "fetch"
    /\ \E f \in fetching : \E a \in Answers(trains[f.entry]) :
          LET made == create(trains[f.entry].number, a) IN
          /\ f.thread = "MainThread"
          /\ fetching' = fetching \ {f}
          /\ upstream' = [upstream EXCEPT ![f.entry] = a]
          /\ IF made.raised # ""
             THEN /\ pc' = "raised"
                  /\ raised' = made.raised
                  /\ UNCHANGED futures
             ELSE /\ futures' = Append(futures, [state |-> "pending", train |-> made.value[1], result |-> None])
                  /\ pc' = IF f.entry = Len(trains) THEN "collect" ELSE "submit"
                  /\ UNCHANGED raised
    /\ UNCHANGED <<is_departure, trains, completed, table, fmtVars, callVars, dumpVars>>

\* a worker of the pool runs the k-th submitted call of process_train
RunTask(k) ==
    /\ futures[k].state = "pending"
    /\ futures' = [futures EXCEPT ![k] =
                      [ state  |-> "done",
                        train  |-> @.train,
                        result |-> Some(process_train(BoardStation, @.train, is_departure)) ]]
    /\ completed' = Append(completed, k)
    /\ UNCHANGED <<pc, is_departure, trains, upstream, fetching, table, raised, fmtVars, callVars, dumpVars>>

\* row = future.result(); table.add_row(row), and click.echo(table) after the last
Collect ==
    /\ pc = "collect"
    /\ next_future \in 1..Len(futures)
    /\ futures[next_future].state = "done"
    /\ LET outcome == futures[next_future].result[1] IN
       IF outcome.raised # ""
       THEN /\ pc' = "raised"
            /\ raised' = outcome.raised
            /\ UNCHANGED table
       ELSE /\ table' = Append(table, outcome.value[1])
            /\ pc' = IF Len(table) + 1 = Len(futures) THEN "printed" ELSE "collect"
            /\ UNCHANGED raised
    /\ UNCHANGED <<is_departure, trains, upstream, fetching, futures, completed, fmtVars, callVars, dumpVars>>

Next ==
    \/ GetBoard
    \/ FetchStart
    \/ FetchReturn
    \/ \E k \in 1..Len(futures) : RunTask(k)
    \/ Collect

Spec == Init /\ [][Next]_vars

-----------------------------------------------------------------------------
(* Properties of show_timetable, under Spec *)

\* what the upstream service answered for the k-th entry of the board
AnswerKind(k) ==
    LET a == upstream[k] IN
    IF a.status = "" THEN "unasked"
    ELSE IF a.status = "error" THEN "error"
    ELSE IF a.body = None THEN "empty"
    ELSE IF \E i \in 1..Len(a.body[1].fermate) : a.body[1].fermate[i].id = BoardStation
    THEN "listed"
    ELSE "elsewhere"

\* show_timetable is over: the table was printed, or an exception left it
Ended == pc \in {"printed", "raised"}

\* exactly one entry of the board got an answer of this kind, and no other
\* entry got anything but a journey that lists the board's station
OnlyFailure(kind) ==
    \E i \in 1..Len(trains) :
        /\ AnswerKind(i) = kind
        /\ \A j \in 1..Len(trains) : j # i => AnswerKind(j) \in {"listed", "unasked"}

\* a row made without a Train object, from the board entry alone
Approximate(row) == row.train = None

\* the board was printed with one row per entry, the rows of the entries
\* with an answer of this kind approximate and the others resolved
BoardDegraded(kind) ==
    /\ pc = "printed"
    /\ Len(table) = Len(trains)
    /\ \A k \in 1..Len(table) : Approximate(table[k]) <=> AnswerKind(k) = kind

\* C6: Partial failure. When the train-progress fetch of exactly one entry
\* fails with a transport error (error status or timeout), the board still
\* yields one row per entry, exactly that one approximate, and the failure
\* never aborts the board.
C6_PartialFailure == (Ended /\ OnlyFailure("error")) => BoardDegraded("error")

\* C7: No real-time data is not an error. When the upstream progress call
\* returns no data for an entry, a row is still emitted for it, approximate,
\* and the other rows are rendered normally.
C7_NoDataIsNotAnError == (Ended /\ OnlyFailure("empty")) => BoardDegraded("empty")

\* C8: Reference station not found. When a train has real-time data but the
\* board's station is not in its stop list, its row falls back to the
\* approximate presentation and every other row is still produced.
C8_StationNotFound == (Ended /\ OnlyFailure("elsewhere")) => BoardDegraded("elsewhere")

\* C9: Order preservation. Under every interleaving and completion order of
\* the workers, the i-th row added to the table belongs to the i-th entry of
\* the board.
C9_OrderPreservation ==
    \A k \in 1..Len(table) : table[k].train = Some(trains[k].number)

\* a board printed in full although its second task completed before its first
C9_Witness ==
    /\ pc = "printed"
    /\ Len(trains) >= 2
    /\ Len(table) = Len(trains)
    /\ completed[1] = 2

\* C10: Concurrent fan-out. The train-progress fetch of each board entry is
\* executed by a worker of the pool, not by the thread that fills the pool.
C10_FetchByWorker == \A f \in fetching : f.thread # "MainThread"

\* What holds instead: the fetches are made one after the other, each one
\* returning before the next is sent.
FetchesAreSequential == Cardinality(fetching) <= 1

-----------------------------------------------------------------------------
(* viaggiatreno.py: station identifiers.  A Python str is modelled here as *)
(* the sequence of its characters, so that startswith, slicing and int()   *)
(* are computed character by character.                                    *)

MIN_ENEE_CODE == 0
MAX_ENEE_CODE == 99999

DigitChars == <<"0", "1", "2", "3", "4", "5", "6", "7", "8", "9">>
IsDigit(c) == \E d \in 1..10 : DigitChars[d] = c
DigitValue(c) == (CHOOSE d \in 1..10 : DigitChars[d] = c) - 1

\* the value of a non-empty sequence of digits
RECURSIVE DigitsValue(_)
DigitsValue(s) ==
    IF Len(s) = 0 THEN 0
    ELSE 10 * DigitsValue(SubSeq(s, 1, Len(s) - 1)) + DigitValue(s[Len(s)])

\* int(s) of a str: an optional sign followed by one or more digits, else
\* ValueError (strings with white space or underscores are not modelled)
int(s) ==
    LET signed == Len(s) > 0 /\ s[1] \in {"-", "+"}
        digits == IF signed THEN SubSeq(s, 2, Len(s)) ELSE s
    IN  IF Len(digits) = 0 \/ \E i \in 1..Len(digits) : ~IsDigit(digits[i])
        THEN Raise("ValueError")
        ELSE Return(IF signed /\ s[1] = "-" THEN 0 - DigitsValue(digits) ELSE DigitsValue(digits))

\* s.startswith(prefix)
startswith(s, prefix) ==
    Len(s) >= Len(prefix) /\ SubSeq(s, 1, Len(prefix)) = prefix

\* str(n) of an int n >= 0
RECURSIVE str(_)
str(n) ==
    IF n < 10 THEN << DigitChars[n + 1] >>
    ELSE str(n \div 10) \o << DigitChars[(n % 10) + 1] >>

\* f"{n:05d}" of an int n >= 0
RECURSIVE zfill(_, _)
zfill(s, width) == IF Len(s) >= width THEN s ELSE zfill(<<"0">> \o s, width)

\* to_station_id without the zero padding
to_station_id_unpadded(enee_code) == <<"S">> \o str(enee_code)

\* to_station_id(enee_code): f"S{enee_code:05d}"
to_station_id(enee_code) == <<"S">> \o zfill(str(enee_code), 5)

\* the range check of to_enee_code on what int() gave
checked(parsed) ==
    IF parsed.raised # "" THEN parsed
    ELSE IF parsed.value[1] < MIN_ENEE_CODE \/ parsed.value[1] > MAX_ENEE_CODE
    THEN Raise("ValueError")
    ELSE parsed

\* to_enee_code that knows the "S" prefix only
to_enee_code_S_only(station_id) ==
    IF startswith(station_id, <<"S">>) THEN checked(int(SubSeq(station_id, 2, Len(station_id))))
    ELSE checked(int(station_id))

\* to_enee_code without the range check
to_enee_code_unchecked(station_id) ==
    IF startswith(station_id, <<"S">>) THEN int(SubSeq(station_id, 2, Len(station_id)))
    ELSE IF startswith(station_id, <<"8", "3", "0">>) THEN int(SubSeq(station_id, 4, Len(station_id)))
    ELSE int(station_id)

\* to_enee_code(station_id)
to_enee_code(station_id) ==
    IF startswith(station_id, <<"S">>) THEN checked(int(SubSeq(station_id, 2, Len(station_id))))
    ELSE IF startswith(station_id, <<"8", "3", "0">>) THEN checked(int(SubSeq(station_id, 4, Len(station_id))))
    ELSE checked(int(station_id))

-----------------------------------------------------------------------------
(* The calls of the conversion and formatting functions: Init draws one    *)
(* call, with its arguments, and the action of the function called makes   *)
(* it return.                                                              *)

MaxBody == 6

\* the revisions of map_stop_type and the stop codes they are called on
Decoders == {"api.utils", "viaggiatreno", "orariotreni.utils"}
StopCodes == {"P", "F", "A", "S", "X", ""}

\* the strings of at most n characters of cs
RECURSIVE Strings(_, _)
Strings(cs, n) ==
    IF n = 0 THEN { << >> }
    ELSE LET shorter == Strings(cs, n - 1) IN
         shorter \cup { << c >> \o t : c \in cs, t \in { u \in shorter : Len(u) = n - 1 } }

\* what may follow the prefix of a station id: digits and letters, signed or
\* not, and the numbers around the two ends of the range of the codes
Bodies ==
    LET plain == Strings({"0", "3", "8", "x"}, MaxBody) IN
    plain \cup { <<"-">> \o b : b \in plain }
          \cup { <<"9", "9", "9", "9", "9">>, <<"1", "0", "0", "0", "0", "0">>,
                 <<"0", "9", "9", "9", "9", "9">>, <<"+", "1", "7">> }

StationIds == { prefix \o body : prefix \in { << >>, <<"S">>, <<"8", "3", "0">> }, body \in Bodies }

Timestamps == {None, Some(0), Some(1), Some(-1), Some(86399999), Some(86400000), Some(Sched(1))}

\* journeys whose stops have every combination of absent, zero and set
\* actual times
ReportedTimes(i) == {None, Some(0), Some(Sched(i) + 60000)}
RECURSIVE TimedStopsFrom(_, _)
TimedStopsFrom(i, n) ==
    IF i > n THEN { << >> }
    ELSE { << RawStop(i, n, pr, ar, None, None, None, None) >> \o rest :
             pr \in ReportedTimes(i), ar \in ReportedTimes(i), rest \in TimedStopsFrom(i + 1, n) }

\* journeys whose stops have every combination of the three stop codes
RECURSIVE KindStopsFrom(_, _)
KindStopsFrom(i, n) ==
    IF i > n THEN { << >> }
    ELSE { << [RawStop(i, n, None, None, None, None, None, None) EXCEPT !.tipoFermata = k] >> \o rest :
             k \in {"P", "F", "A"}, rest \in KindStopsFrom(i + 1, n) }

\* the journey of a train that ends at the station it started from
Revisiting(fermate) == [fermate EXCEPT ![Len(fermate)].id = fermate[1].id]

\* an andamentoTreno response with its nonPartito flag
FlaggedResponse(number, ritardo, fermate, nonPartito) ==
    [ numeroTreno |-> number, ritardo |-> ritardo, fermate |-> fermate, nonPartito |-> nonPartito ]

\* the stops get_formatted_time is called on: a scheduled time, or none, and
\* an actual time around thirty seconds after it
Lateness == {-60000, 0, 29999, 30000, 30001, 60000}
TimedStops ==
    { TrainStop(RawStop(2, 3, pr, ar, None, None, None, None)) :
        pr \in {None} \cup { Some(Sched(2) + l) : l \in Lateness },
        ar \in {None} \cup { Some(Sched(2) - 120000 + l) : l \in Lateness } }
    \cup { TrainStop([RawStop(2, 3, pr, pr, None, None, None, None)
                        EXCEPT !.partenza_teorica = None, !.arrivo_teorico = None]) :
              pr \in {None, Some(Sched(2))} }

Call(fn, args) == Some([fn |-> fn, args |-> args, spelling |-> "", x |-> 0])

\* a call of to_enee_code on the spelling of the code x with a prefix
Spelt(spelling, x) ==
    Some([ fn       |-> "to_enee_code",
           args     |-> << (IF spelling = "830" THEN <<"8", "3", "0">> ELSE << >>) \o str(x) >>,
           spelling |-> spelling,
           x        |-> x ])

-----------------------------------------------------------------------------
(* trains.py, the first client: Stop, Train and Station.showDepartures     *)

\* Stop(data): the departure side of a stop of andamentoTreno
trains_Stop(data) ==
    LET scheduled == data.binarioProgrammatoPartenzaDescrizione
        actual == data.binarioEffettivoPartenzaDescrizione
        actual_departure_platform ==
            IF actual = None /\ scheduled = None THEN Some("N/A")
            ELSE IF actual = None THEN scheduled
            ELSE actual
        scheduled_departure_platform ==
            IF scheduled = None THEN actual_departure_platform ELSE scheduled
    IN  [ id                               |-> data.id,
          name                             |-> data.stazione,
          scheduled_departure_platform     |-> scheduled_departure_platform,
          actual_departure_platform        |-> actual_departure_platform,
          train_in_station_if_not_departed |-> actual # None,
          departure_platform_has_changed   |-> actual_departure_platform # scheduled_departure_platform ]

\* Train(data), with at_data the answer of andamentoTreno (None for no data)
trains_Train(data, at_data) ==
    IF at_data = None
    THEN [ number |-> data.numeroTreno, departed |-> ~data.nonPartito, delay |-> data.ritardo,
           no_data |-> TRUE, origin_station |-> "", stops |-> << >> ]
    ELSE [ number |-> data.numeroTreno, departed |-> ~data.nonPartito, delay |-> at_data[1].ritardo,
           no_data |-> FALSE, origin_station |-> at_data[1].idOrigine,
           stops |-> [i \in 1..Len(at_data[1].fermate) |-> trains_Stop(at_data[1].fermate[i])] ]

\* for s in train.stops: if s.id == id: var = s, from the value var had before
\* the loop (None while the name is unbound)
RECURSIVE last_with_id(_, _, _)
last_with_id(stops, id, var) ==
    IF stops = << >> THEN var
    ELSE last_with_id(Tail(stops), id, IF Head(stops).id = id THEN Some(Head(stops)) ELSE var)

\* the body of `for train in futures` from the i-th train on; origin0 and
\* stop0 are the values the local variables origin and stop of showDepartures
\* have when the iteration starts: they outlive each iteration
RECURSIVE departure_rows(_, _, _, _, _, _)
departure_rows(self_id, these, i, origin0, stop0, rows) ==
    IF i > Len(these) THEN Return(rows)
    ELSE LET tr == these[i] IN
         IF tr.no_data
         THEN departure_rows(self_id, these, i + 1, origin0, stop0,
                  Append(rows, [ train |-> tr.number, origin |-> None, stop |-> None,
                                 departure_platform |-> click_style(Str(Some("No real-time info")), "yellow", FALSE, FALSE) ]))
         ELSE LET origin2 == last_with_id(tr.stops, tr.origin_station, origin0)
                  stop2 == last_with_id(tr.stops, self_id, stop0)
                  reads_origin == tr.delay = 0 /\ ~tr.departed
              IN  IF (reads_origin /\ origin2 = None) \/ stop2 = None
                  THEN Raise("UnboundLocalError")
                  ELSE departure_rows(self_id, these, i + 1, origin2, stop2,
                           Append(rows, [ train  |-> tr.number,
                                          origin |-> IF reads_origin THEN origin2 ELSE None,
                                          stop   |-> stop2,
                                          departure_platform |->
                                              IF stop2[1].departure_platform_has_changed
                                              THEN click_style(Str(stop2[1].actual_departure_platform), "blue", FALSE, FALSE)
                                              ELSE Str(stop2[1].actual_departure_platform) ]))

\* Station.showDepartures of the station self_id on the trains of its board
showDepartures(self_id, these) == departure_rows(self_id, these, 1, None, None, << >>)

\* the trains of a board of the first client: with no data, with a journey
\* through the board's station, or with a journey that leaves it out
LegacyJourneys ==
    { << RawStop(1, 3, None, None, Some("1"), None, None, None),
         RawStop(2, 3, None, None, Some("4"), bep, None, None),
         RawStop(3, 3, None, None, None, None, None, None) >> : bep \in {None, Some("4"), Some("5")} }
    \cup { << RawStop(1, 3, None, None, Some("1"), None, None, None),
              RawStop(3, 3, None, None, None, None, None, None) >> }

LegacyTrains(k) ==
    { trains_Train([numeroTreno |-> 2000 + k, nonPartito |-> np, ritardo |-> 0], at_data) :
        np \in BOOLEAN,
        at_data \in {None} \cup { Some([idOrigine |-> "S01701", ritardo |-> 0, fermate |-> j]) : j \in LegacyJourneys } }

RECURSIVE LegacyBoards(_)
LegacyBoards(n) ==
    IF n = 0 THEN { << >> }
    ELSE { Append(b, tr) : b \in LegacyBoards(n - 1), tr \in LegacyTrains(n) }

\* viaggiatreno.py, to_ms_date_timestamp.  An argument is the record
\* [form, ms, iso]: form is its Python type, ms the instant it denotes (local
\* time taken as UTC; midnight of the day for a date) and iso tells whether a
\* str is in a format datetime.fromisoformat accepts.
isinstance(x, cls) == x.form = cls \/ (cls = "date" /\ x.form = "datetime")

\* datetime.combine(d, time.min).timestamp() * 1000
combine_time_min(ms) == (ms \div 86400000) * 86400000

to_ms_date_timestamp(date_to_convert) ==
    IF isinstance(date_to_convert, "date") THEN Return(combine_time_min(date_to_convert.ms))
    ELSE IF isinstance(date_to_convert, "datetime") THEN Return(combine_time_min(date_to_convert.ms))
    ELSE IF isinstance(date_to_convert, "int") THEN Return(combine_time_min(date_to_convert.ms))
    ELSE IF isinstance(date_to_convert, "str")
         THEN IF date_to_convert.iso THEN Return(date_to_convert.ms) ELSE Raise("ValueError")
    ELSE Raise("TypeError")

\* the arguments: instants of two days, at midnight and later, in every form.
\* A date denotes midnight; a str is a date, a date with a time, or not ISO.
Days == {0, 20}
TimesOfDay == {0, 1, 37800000, 86399999}
DateArguments ==
    { [form |-> f, ms |-> d * 86400000 + (IF f = "date" THEN 0 ELSE t), iso |-> i] :
        f \in {"date", "datetime", "int", "str", "float"}, d \in Days, t \in TimesOfDay, i \in BOOLEAN }

\* cli/main.py, Train.show_progress: the value given to bar.update when the
\* last update is known.  departure_time and arrival_time are the scheduled
\* times of the journey; the quotient elapsed_time / trip_duration * 100 is
\* kept exact as the fraction num / den.
last_arrival_time(stops, departure_time) ==
    IF \E i \in 1..Len(stops) : stops[i].actual_arrival_time # None
    THEN LET i == CHOOSE i \in 1..Len(stops) :
                     /\ stops[i].actual_arrival_time # None
                     /\ \A j \in (i + 1)..Len(stops) : stops[j].actual_arrival_time = None
         IN  stops[i].actual_arrival_time
    ELSE departure_time

total_seconds(later, earlier) == (later[1] - earlier[1]) \div 1000

progress_percentage(departure_time, arrival_time, stops) ==
    LET trip_duration == total_seconds(arrival_time, departure_time)
        elapsed_time == total_seconds(last_arrival_time(stops, departure_time), departure_time)
    IN  IF trip_duration = 0 THEN Raise("ZeroDivisionError")
        ELSE Return([num |-> elapsed_time * 100, den |-> trip_duration])

\* the scheduled arrival of a journey of n stops, and a journey that is
\* scheduled to arrive when it departs
ScheduledArrivals(n) == {Sched(1), Sched(n) - 120000}

InitCalls ==
    /\ idle
    /\ train = None
    /\ ref = 0
    /\ shown = None
    /\ returned = None
    /\ \/ \E d \in Decoders : \E c \in StopCodes : call = Call("map_stop_type", <<d, c>>)
       \/ \E station_id \in StationIds : call = Call("to_enee_code", <<station_id>>)
       \/ \E x \in MIN_ENEE_CODE..MAX_ENEE_CODE : call = Call("to_station_id", <<x>>)
       \/ \E x \in MIN_ENEE_CODE..MAX_ENEE_CODE : \E spelling \in {"830", "bare"} : call = Spelt(spelling, x)
       \/ \E ts \in Timestamps : \E fn \in {"to_datetime", "to_date"} : call = Call(fn, <<ts>>)
       \/ \E n \in 2..MaxStops : \E fermate \in TimedStopsFrom(1, n) : \E np \in BOOLEAN :
             \E fn \in {"get_train_progress", "get_formatted_delay"} : \E ritardo \in Delays :
                call = Call(fn, <<FlaggedResponse(9999, ritardo, fermate, np)>>)
       \/ \E n \in 2..MaxStops : \E fermate \in TimedStopsFrom(1, n) :
             call = Call("Train", <<FlaggedResponse(9999, Some(0), Revisiting(fermate), TRUE)>>)
       \/ \E n \in 2..MaxStops : \E fermate \in KindStopsFrom(1, n) :
             call = Call("Train", <<FlaggedResponse(9999, Some(0), fermate, TRUE)>>)
       \/ \E n \in 1..MaxBoard : \E these \in LegacyBoards(n) :
             call = Call("showDepartures", <<BoardStation, these>>)
       \/ \E date_to_convert \in DateArguments : call = Call("to_ms_date_timestamp", <<date_to_convert>>)
       \/ \E n \in 2..MaxStops : \E fermate \in TimedStopsFrom(1, n) : \E orarioArrivo \in ScheduledArrivals(n) :
             call = Call("show_progress", <<Sched(1), orarioArrivo, FlaggedResponse(9999, Some(0), fermate, FALSE)>>)
       \/ \E self \in TimedStops : \E delay \in {-3, 0, 5} : \E check_departures \in BOOLEAN :
             call = Call("get_formatted_time", <<self, delay, check_departures>>)

Calling(fn) == call # None /\ call[1].fn = fn /\ returned = None
Returns(v) == returned' = Some(v) /\ UNCHANGED <<boardVars, fmtVars, call, dumpVars>>

\* map_stop_type of the revision d, with the KeyError of the dict lookup
MapStopType ==
    /\ Calling("map_stop_type")
    /\ LET d == call[1].args[1]
           stop_type == call[1].args[2]
       IN  Returns(IF d = "viaggiatreno" THEN Return(viaggiatreno_map_stop_type(stop_type))
                   ELSE IF d = "orariotreni.utils" THEN Return(orariotreni_map_stop_type(stop_type))
                   ELSE IF map_stop_type(stop_type) = "KeyError" THEN Raise("KeyError")
                   ELSE Return(map_stop_type(stop_type)))

\* to_station_id(x), whose result is then given to to_enee_code
ToStationId ==
    /\ Calling("to_station_id")
    /\ call' = Some([ fn       |-> "to_enee_code",
                      args     |-> << to_station_id(call[1].args[1]) >>,
                      spelling |-> "S",
                      x        |-> call[1].args[1] ])
    /\ UNCHANGED <<boardVars, fmtVars, returned, dumpVars>>

ToEneeCode == Calling("to_enee_code") /\ Returns(to_enee_code(call[1].args[1]))

ToDatetime == Calling("to_datetime") /\ Returns(to_datetime(call[1].args[1]))

ToDate == Calling("to_date") /\ Returns(to_date(call[1].args[1]))

\* api.get_train_progress on a non-empty body
GetTrainProgress ==
    /\ Calling("get_train_progress")
    /\ Returns(get_train_progress([status |-> "ok", body |-> Some(call[1].args[1])]))

\* Train(number, ..., detailed_info) on the TrainProgress of a body
NewTrain ==
    /\ Calling("Train")
    /\ Returns(Train(call[1].args[1].numeroTreno, TrainProgress(call[1].args[1])))

\* Train.get_formatted_delay of the train made from a body
FormattedDelay ==
    /\ Calling("get_formatted_delay")
    /\ Returns(get_formatted_delay(Train(call[1].args[1].numeroTreno, TrainProgress(call[1].args[1]))))

FormattedTime ==
    /\ Calling("get_formatted_time")
    /\ Returns(get_formatted_time(call[1].args[1], call[1].args[2], call[1].args[3]))

\* Station.showDepartures of trains.py, after pool.map(Train, departures)
ShowDepartures ==
    /\ Calling("showDepartures")
    /\ Returns(showDepartures(call[1].args[1], call[1].args[2]))

\* Train.show_progress of a train whose last update is known: the progress bar
ShowProgressBar ==
    /\ Calling("show_progress")
    /\ LET t == Train(call[1].args[3].numeroTreno, TrainProgress(call[1].args[3]))
       IN  Returns(progress_percentage(to_datetime(Some(call[1].args[1])),
                                       to_datetime(Some(call[1].args[2])), t.stops))

ToMsDateTimestamp == Calling("to_ms_date_timestamp") /\ Returns(to_ms_date_timestamp(call[1].args[1]))

NextCalls ==
    \/ ShowDepartures
    \/ ToMsDateTimestamp
    \/ ShowProgressBar
    \/ MapStopType
    \/ ToStationId
    \/ ToEneeCode
    \/ ToDatetime
    \/ ToDate
    \/ GetTrainProgress
    \/ NewTrain
    \/ FormattedDelay
    \/ FormattedTime

SpecCalls == InitCalls /\ [][NextCalls]_vars

-----------------------------------------------------------------------------
(* Properties of the conversion and formatting functions, under SpecCalls *)

Returned(fn) == call # None /\ call[1].fn = fn /\ returned # None

\* C12: Stop-kind decoding. In every revision of map_stop_type, "P", "F" and
\* "A" decode to departure, intermediate and arrival, and every other code
\* makes the call fail instead of returning a value.
C12_UnknownCodeFails ==
    Returned("map_stop_type") =>
        LET stop_type == call[1].args[2] IN
        /\ stop_type = "P" => returned[1] = Return("departure")
        /\ stop_type = "F" => returned[1] = Return("intermediate")
        /\ stop_type = "A" => returned[1] = Return("arrival")
        /\ stop_type \notin {"P", "F", "A"} => returned[1].raised # ""

\* C13: Round trip of station identifiers. For every x in 0..99999,
\* to_station_id(x) is "S" followed by the five digits of x, zero-padded, and
\* to_enee_code of it returns x.
C13_RoundTrip ==
    (Returned("to_enee_code") /\ call[1].spelling = "S") =>
        LET station_id == call[1].args[1] IN
        /\ Len(station_id) = 6
        /\ station_id[1] = "S"
        /\ \A i \in 2..6 : IsDigit(station_id[i])
        /\ returned[1] = Return(call[1].x)

\* the code 1700 went through "S01700" and came back
C13_Witness ==
    /\ Returned("to_enee_code")
    /\ call[1].spelling = "S"
    /\ call[1].x = 1700
    /\ call[1].args[1] = <<"S", "0", "1", "7", "0", "0">>
    /\ returned[1] = Return(1700)

\* C14 as claimed: to_enee_code returns x for each of the three spellings of
\* every code x in 0..99999: "S" and five digits, "830" and the digits of x,
\* and the digits of x alone.
C14_PrefixNormalization ==
    (Returned("to_enee_code") /\ call[1].spelling # "") => returned[1] = Return(call[1].x)

\* the decimal digits of x begin with 830
BeginsWith830(x) == x = 830 \/ x \div 10 = 830 \/ x \div 100 = 830

\* C14, amended: to_enee_code returns x for the spellings "S" and five digits
\* and "830" and the digits of x, and for the digits of x alone unless they
\* begin with 830; those are read as the prefix "830" and what follows it:
\* "830" itself is rejected, and 830d and 830dd give d and dd.
C14_PrefixNormalizationUnambiguous ==
    (Returned("to_enee_code") /\ call[1].spelling # "") =>
        LET x == call[1].x IN
        IF call[1].spelling = "bare" /\ BeginsWith830(x)
        THEN returned[1] = (IF x = 830 THEN Raise("ValueError")
                            ELSE IF x \div 10 = 830 THEN Return(x % 10)
                            ELSE Return(x % 100))
        ELSE returned[1] = Return(x)

\* "8301700" was read as the code 1700
C14_Witness ==
    /\ Returned("to_enee_code")
    /\ call[1].spelling = "830"
    /\ call[1].args[1] = <<"8", "3", "0", "1", "7", "0", "0">>
    /\ returned[1] = Return(1700)

\* what is left of a station id after its prefix
Remainder(station_id) ==
    IF Len(station_id) >= 1 /\ station_id[1] = "S" THEN Tail(station_id)
    ELSE IF Len(station_id) >= 3 /\ station_id[1] = "8" /\ station_id[2] = "3" /\ station_id[3] = "0"
    THEN Tail(Tail(Tail(station_id)))
    ELSE station_id

\* the characters are a number: digits, with or without a sign before them
IsNumber(cs) ==
    LET unsigned == IF Len(cs) >= 1 /\ cs[1] \in {"+", "-"} THEN Tail(cs) ELSE cs IN
    Len(unsigned) >= 1 /\ \A i \in 1..Len(unsigned) : unsigned[i] \in {"0", "1", "2", "3", "4", "5", "6", "7", "8", "9"}

NumberValue(cs) ==
    IF cs[1] = "-" THEN 0 - DigitsValue(Tail(cs))
    ELSE IF cs[1] = "+" THEN DigitsValue(Tail(cs))
    ELSE DigitsValue(cs)

C16_ZeroTimestamp ==
    /\ Returned("to_datetime") =>
          returned[1] = (IF call[1].args[1] \in {None, Some(0)} THEN None ELSE call[1].args[1])
    /\ Returned("to_date") =>
          IF call[1].args[1] \in {None, Some(0)} THEN returned[1] = None
          ELSE /\ returned[1] # None
               /\ returned[1][1] * 86400000 <= call[1].args[1][1]
               /\ call[1].args[1][1] < (returned[1][1] + 1) * 86400000
    /\ Returned("get_train_progress") =>
          \A i \in 1..Len(call[1].args[1].fermate) :
             LET s == call[1].args[1].fermate[i]
                 stop == returned[1].value[1].stops[i]
             IN  /\ stop.arrived <=> s.arrivoReale \notin {None, Some(0)}
                 /\ stop.departed <=> s.partenzaReale \notin {None, Some(0)}
                 /\ s.arrivoReale = Some(0) => stop.actual_arrival_time = None
                 /\ s.partenzaReale = Some(0) => stop.actual_departure_time = None

\* a response with arrivoReale 0 at its last stop gave a stop that has not arrived
C16_Witness ==
    /\ Returned("get_train_progress")
    /\ LET n == Len(call[1].args[1].fermate) IN
       /\ call[1].args[1].fermate[n].arrivoReale = Some(0)
       /\ call[1].args[1].fermate[1].partenzaReale = Some(Sched(1) + 60000)
       /\ ~returned[1].value[1].stops[n].arrived
       /\ returned[1].value[1].stops[1].departed

\* C17: Time display rule. With a scheduled time, a known actual time is
\* shown in red iff it is more than 30 seconds after the scheduled time and in
\* green otherwise, exactly 30 seconds included; with no actual time and a
\* delay > 0 the scheduled time plus the delay in minutes is shown in yellow;
\* with no actual time and a delay <= 0 the scheduled time is shown unstyled.
C17_TimeDisplayRule ==
    Returned("get_formatted_time") =>
        LET self == call[1].args[1]
            delay == call[1].args[2]
            actual == IF call[1].args[3] THEN self.actual_departure_time ELSE self.actual_arrival_time
            scheduled == IF call[1].args[3] THEN self.scheduled_departure_time ELSE self.scheduled_arrival_time
            shownTime == returned[1].value[1]
        IN  scheduled # None =>
              /\ returned[1].raised = ""
              /\ ~shownTime.bold /\ ~shownTime.dim
              /\ actual # None =>
                    /\ shownTime.text = Some(strftime(actual[1]))
                    /\ shownTime.fg = (IF actual[1] > scheduled[1] + 30000 THEN "red" ELSE "green")
              /\ (actual = None /\ delay > 0) =>
                    /\ shownTime.text = Some(strftime(scheduled[1] + delay * 60000))
                    /\ shownTime.fg = "yellow"
              /\ (actual = None /\ delay <= 0) =>
                    /\ shownTime.text = Some(strftime(scheduled[1]))
                    /\ shownTime.fg = ""

\* a departure exactly thirty seconds late was shown in green
C17_Witness ==
    /\ Returned("get_formatted_time")
    /\ call[1].args[3]
    /\ call[1].args[1].scheduled_departure_time # None
    /\ call[1].args[1].actual_departure_time = Some(call[1].args[1].scheduled_departure_time[1] + 30000)
    /\ returned[1].value[1].fg = "green"

\* C19: the branch of the Delay Rule for a train that has departed from its
\* origin is taken exactly when the nonPartito flag of the response is false,
\* and the TrainProgress carries that value as departed_from_origin.
C19_DepartedFromOrigin ==
    /\ Returned("get_formatted_delay") =>
          (~call[1].args[1].nonPartito <=>
              returned[1].text \notin {Some("Pronto"), Some("Non partito")})
    /\ Returned("get_train_progress") =>
          /\ "departed_from_origin" \in DOMAIN returned[1].value[1]
          /\ returned[1].value[1].departed_from_origin = ~call[1].args[1].nonPartito

\* the stops of a kind in the stop list of t
OfKind(t, kind) == { i \in 1..Len(t.stops) : t.stops[i].type = kind }

\* C20: Logical endpoints. The origin of a train is its stop of kind
\* departure, and stops[0] only when no stop has that kind; its destination
\* is its stop of kind arrival, and stops[-1] only when no stop has that kind.
C20_LogicalEndpoints ==
    Returned("Train") =>
        LET t == returned[1] IN
        /\ IF OfKind(t, "departure") # {}
           THEN \E i \in OfKind(t, "departure") : origin(t) = t.stops[i]
           ELSE origin(t) = t.stops[1]
        /\ IF OfKind(t, "arrival") # {}
           THEN \E i \in OfKind(t, "arrival") : destination(t) = t.stops[i]
           ELSE destination(t) = t.stops[Len(t.stops)]

\* C22: the delay of a TrainProgress is the ritardo field of the response as
\* an integer, and 0 when that field is null; a response with a null ritardo
\* is decoded without failing.
C22_NullDelayIsZero ==
    Returned("get_train_progress") =>
        /\ returned[1].raised = ""
        /\ returned[1].value[1].delay =
              (IF call[1].args[1].ritardo = None THEN 0 ELSE call[1].args[1].ritardo[1])

\* a response with a null ritardo gave a TrainProgress with delay 0
C22_Witness ==
    /\ Returned("get_train_progress")
    /\ call[1].args[1].ritardo = None
    /\ returned[1] = Return(TrainProgress(call[1].args[1]))
    /\ returned[1].value[1].delay = 0

\* C23: Per-stop fidelity. After Train construction the i-th element of
\* Train.stops carries the times, tracks, flags and kind of the i-th stop of
\* the response, also when a station id occurs at more than one position.
C23_PerStopFidelity ==
    Returned("Train") =>
        \A i \in 1..Len(returned[1].stops) :
            returned[1].stops[i] = TrainStop(call[1].args[1].fermate[i])

\* C24: in showDepartures the stop, and the origin stop, used for a row are
\* stops of that row's own train: no row is computed from a stop of a train
\* processed before it, also when its own train does not stop at the board's
\* station.
C24_OwnStop ==
    (Returned("showDepartures") /\ returned[1].raised = "") =>
        LET these == call[1].args[2]
            rows == returned[1].value[1]
            own(k) == { these[k].stops[i] : i \in 1..Len(these[k].stops) }
        IN  \A k \in 1..Len(rows) :
               /\ rows[k].train = these[k].number
               /\ rows[k].stop # None => rows[k].stop[1] \in own(k)
               /\ rows[k].origin # None => rows[k].origin[1] \in own(k)

\* C28: the progress percentage show_progress gives to the progress bar is
\* between 0 and 100 inclusive for every train whose last update is known:
\* the computation raises nothing and 0 <= num / den <= 100.
C28_ProgressWithinBar ==
    Returned("show_progress") =>
        /\ returned[1].raised = ""
        /\ LET p == returned[1].value[1]
           IN  IF p.den > 0 THEN 0 <= p.num /\ p.num <= 100 * p.den
               ELSE p.num <= 0 /\ p.num >= 100 * p.den

\* the two ways the bar leaves its range
C28_Overrun ==
    /\ Returned("show_progress")
    /\ returned[1].raised = ""
    /\ returned[1].value[1].num > 100 * returned[1].value[1].den
C28_ZeroDuration == Returned("show_progress") /\ returned[1].raised = "ZeroDivisionError"

\* C29: for every supported form of the argument (date, datetime, millisecond
\* timestamp, ISO 8601 string) to_ms_date_timestamp returns the millisecond
\* timestamp of midnight of the day the argument denotes, so that two
\* arguments of the same day give the same result.
C29_MidnightOfTheDay ==
    Returned("to_ms_date_timestamp") =>
        LET x == call[1].args[1] IN
        (x.form \in {"date", "datetime", "int"} \/ (x.form = "str" /\ x.iso)) =>
            returned[1] = Return((x.ms \div 86400000) * 86400000)

-----------------------------------------------------------------------------
(* Successive snapshots of one journey: the upstream service adds actual   *)
(* arrival and departure times to the stops, one at a time, and after each *)
(* addition the progress is fetched again and shown.  call holds the       *)
(* latest response, ref the number of additions.                           *)

\* the response of a journey of n stops on which nothing has happened yet
Untouched(n, ritardo) ==
    Response(9999, ritardo, [i \in 1..n |-> RawStop(i, n, None, None, Some("1"), None, Some("1"), None)])

\* Train.show_progress of the train created from the response r
progress_of(r) == show_progress(Train(r.numeroTreno, TrainProgress(r)))

InitSnapshots ==
    /\ idle
    /\ returned = None
    /\ ref = 0
    /\ \E n \in 2..MaxStops : \E ritardo \in Delays :
          /\ call = Call("andamentoTreno", <<Untouched(n, ritardo)>>)
          /\ train = Some(Train(9999, TrainProgress(Untouched(n, ritardo))))
          /\ shown = Some(progress_of(Untouched(n, ritardo)))

\* the train reaches the stop i: its arrivoReale is set
Arrive(i) ==
    /\ call[1].args[1].fermate[i].arrivoReale = None
    /\ LET r == [call[1].args[1] EXCEPT !.fermate[i].arrivoReale = Some(Sched(i) - 60000)] IN
       /\ call' = Call("andamentoTreno", <<r>>)
       /\ train' = Some(Train(r.numeroTreno, TrainProgress(r)))
       /\ shown' = Some(progress_of(r))
    /\ ref' = ref + 1
    /\ UNCHANGED <<boardVars, returned, dumpVars>>

\* the train leaves the stop i: its partenzaReale is set
Depart(i) ==
    /\ call[1].args[1].fermate[i].partenzaReale = None
    /\ LET r == [call[1].args[1] EXCEPT !.fermate[i].partenzaReale = Some(Sched(i) + 60000)] IN
       /\ call' = Call("andamentoTreno", <<r>>)
       /\ train' = Some(Train(r.numeroTreno, TrainProgress(r)))
       /\ shown' = Some(progress_of(r))
    /\ ref' = ref + 1
    /\ UNCHANGED <<boardVars, returned, dumpVars>>

NextSnapshots ==
    \/ \E i \in 1..Len(call[1].args[1].fermate) : Arrive(i)
    \/ \E i \in 1..Len(call[1].args[1].fermate) : Depart(i)

SpecSnapshots == InitSnapshots /\ [][NextSnapshots]_vars

\* Plain < Bold < Dimmed
Rank(v) == IF v.dim THEN 2 ELSE IF v.bold THEN 1 ELSE 0

\* C25: Row style never moves backwards. From one snapshot of a journey to
\* the next, in which actual times are added and none removed, the style of
\* every stop stays or moves up in the order Plain < Bold < Dimmed.
C25_RowStyleMonotonic ==
    [][\A i \in 1..Len(shown[1].tracks) : Rank(shown'[1].tracks[i]) >= Rank(shown[1].tracks[i])]_vars

\* after three additions one stop is dimmed, the next bold and the last plain
C25_Witness ==
    /\ call # None /\ call[1].fn = "andamentoTreno"
    /\ ref = 3
    /\ Len(shown[1].tracks) = 3
    /\ Rank(shown[1].tracks[1]) = 2
    /\ Rank(shown[1].tracks[2]) = 1
    /\ Rank(shown[1].tracks[3]) = 0

-----------------------------------------------------------------------------
(* api/wrapper.py, dump_stations: one fetch of cercaStazione per letter on  *)
(* a thread pool, the results gathered as the fetches complete, then        *)
(* sorted and written to stations.csv.  A Python str is the sequence of its *)
(* characters.  pc, upstream, futures, completed and raised are here the    *)
(* position in dump_stations, the response to each fetch, the state of each *)
(* future, the order as_completed yielded them in and the exception raised. *)

\* the letters fetched: the first MaxLetters of the 26
MaxLetters == 3
Alphabet == << "A", "B", "C", "D", "E", "F", "G", "H", "I", "J", "K", "L", "M",
               "N", "O", "P", "Q", "R", "S", "T", "U", "V", "W", "X", "Y", "Z" >>
Letters == 1..MaxLetters

\* the code point order of the characters of a name
ord(c) == CHOOSE k \in 1..(Len(Alphabet) + 1) : (<<" ">> \o Alphabet)[k] = c

\* a < b on str
RECURSIVE str_lt(_, _)
str_lt(a, b) ==
    IF b = << >> THEN FALSE
    ELSE IF a = << >> THEN TRUE
    ELSE IF ord(Head(a)) # ord(Head(b)) THEN ord(Head(a)) < ord(Head(b))
    ELSE str_lt(Tail(a), Tail(b))

\* s.strip()
RECURSIVE lstrip(_)
lstrip(s) == IF s # << >> /\ Head(s) = " " THEN lstrip(Tail(s)) ELSE s
RECURSIVE rstrip(_)
rstrip(s) == IF s # << >> /\ s[Len(s)] = " " THEN rstrip(SubSeq(s, 1, Len(s) - 1)) ELSE s
strip(s) == rstrip(lstrip(s))

\* s.replace("  ", " "): one pass from the left over non-overlapping pairs
RECURSIVE replace_double_space(_)
replace_double_space(s) ==
    IF Len(s) < 2 THEN s
    ELSE IF s[1] = " " /\ s[2] = " " THEN <<" ">> \o replace_double_space(SubSeq(s, 3, Len(s)))
    ELSE <<s[1]>> \o replace_double_space(Tail(s))

normalize(s) == replace_double_space(strip(s))

\* stations.sort(key=lambda x: normalize(x["nomeLungo"])): a stable sort
sort_key(x) == normalize(x.nomeLungo)
RECURSIVE stations_sort(_)
stations_sort_skipped(list) == list
stations_sort(list) ==
    IF list = << >> THEN << >>
    ELSE LET front == stations_sort(SubSeq(list, 1, Len(list) - 1))
             x == list[Len(list)]
             p == Cardinality({ i \in 1..Len(front) : ~str_lt(sort_key(x), sort_key(front[i])) })
         IN  SubSeq(front, 1, p) \o <<x>> \o SubSeq(front, p + 1, Len(front))

\* the rows written after the header
RECURSIVE rows_of(_)
rows_of(list) ==
    IF list = << >> THEN << >>
    ELSE << << Head(list).id, normalize(Head(list).nomeLungo), normalize(Head(list).nomeBreve) >> >>
         \o rows_of(Tail(list))

\* What cercaStazione answers for a letter: stations whose name starts with
\* it ("stations starting with the given text"), among them two whose long
\* names differ only by a doubled space, or an HTTP error.
StationOf(l, k, nomeLungo) ==
    [ id |-> <<"S", Alphabet[l], k>>, nomeLungo |-> <<Alphabet[l]>> \o nomeLungo, nomeBreve |-> <<Alphabet[l], " ">> ]
Found(l) ==
    LET a == StationOf(l, "1", <<" ", "B">>)
        b == StationOf(l, "2", <<" ", " ", "B">>)
        c == StationOf(l, "3", <<" ", "A", " ">>)
    IN  { << >>, <<c>>, <<a, b>>, <<b, c, a>> }
Responses(l) ==
    { [status |-> "ok", body |-> body] : body \in Found(l) }
    \cup { [status |-> "HTTPError", body |-> << >>] }

\* after the list comprehension has submitted the 26 fetches
InitDump ==
    /\ pc = "as_completed"
    /\ is_departure = TRUE
    /\ trains = << >>
    /\ upstream \in { f \in [Letters -> UNION { Responses(l) : l \in Letters }] :
                        \A l \in Letters : f[l] \in Responses(l) }
    /\ fetching = {}
    /\ futures = [l \in Letters |-> "running"]
    /\ completed = << >>
    /\ table = << >>
    /\ raised = ""
    /\ train = None
    /\ ref = 0
    /\ shown = None
    /\ call = None
    /\ returned = None
    /\ stations = << >>
    /\ csv = None

\* a worker thread ends get("cercaStazione", letter): the future is done,
\* with the body or with the exception of raise_for_status
Fetched(l) ==
    /\ pc = "as_completed"
    /\ futures[l] = "running"
    /\ futures' = [futures EXCEPT ![l] = "done"]
    /\ UNCHANGED <<pc, is_departure, trains, upstream, fetching, completed, table, raised,
                   fmtVars, callVars, dumpVars>>

Yielded == { completed[i] : i \in 1..Len(completed) }

\* as_completed yields the done future l and the loop body runs:
\* future.result() raises, leaving dump_stations, or stations.extend; after
\* the last future the rest of dump_stations sorts and writes the file
AsCompleted(l) ==
    /\ pc = "as_completed"
    /\ futures[l] = "done"
    /\ l \notin Yielded
    /\ completed' = Append(completed, l)
    /\ IF upstream[l].status # "ok"
       THEN /\ raised' = upstream[l].status
            /\ pc' = "raised"
            /\ UNCHANGED dumpVars
       ELSE /\ stations' = stations \o upstream[l].body
            /\ UNCHANGED raised
            /\ IF Yielded \cup {l} = Letters
               THEN /\ csv' = Some(rows_of(stations_sort(stations')))
                    /\ pc' = "done"
               ELSE UNCHANGED <<pc, csv>>
    /\ UNCHANGED <<is_departure, trains, upstream, fetching, futures, table, fmtVars, callVars>>

NextDump ==
    \/ \E l \in Letters : Fetched(l)
    \/ \E l \in Letters : AsCompleted(l)

SpecDump == InitDump /\ [][NextDump]_vars

-----------------------------------------------------------------------------
(* Properties of dump_stations, under SpecDump *)

\* stations.csv after a run in which the futures are yielded in the order
\* they were submitted in
RECURSIVE InSubmissionOrder(_)
InSubmissionOrder(l) ==
    IF l > MaxLetters THEN << >> ELSE upstream[l].body \o InSubmissionOrder(l + 1)

C30_FailedFetch == pc = "raised" /\ raised = "HTTPError" /\ Len(completed) > 1

====
